---- MODULE Spec2Model ----
(***************************************************************************)
(* LogLog-Beta cardinality counter (src/src/loglogbeta.rs).                *)
(*                                                                         *)
(* A 64-bit word is the set of the positions (0 = least significant) of    *)
(* its set bits, so that shifts, masks and leading_zeros keep the full     *)
(* 64-bit width.  Real numbers are kept exact: the error handed to `new`   *)
(* is a number of hundredths, alpha is a fraction <<num, den>>, and the    *)
(* inverse sum is a fixed-point number with 65 fractional bits held in     *)
(* 16-bit limbs.                                                           *)
(***************************************************************************)
EXTENDS Integers, Sequences, FiniteSets, TLC

VARIABLES
    build,   \* "debug" | "release": whether arithmetic overflow checks are compiled in
    status,  \* "running" | "panicked"
    ctrs,    \* binding -> LogLogBeta value, or NoCounter
    seen,    \* history: binding -> elements inserted into the value it holds
    last     \* the last call: its arguments, the values before it, and what it gave

vars == <<build, status, ctrs, seen, last>>

---------------------------------------------------------------------------
(* Bounds of the model *)

\* elements are 0 .. MaxElem-1
MaxElem == 3

Slots == {"a", "b"}

Elems == 0 .. (MaxElem - 1)

\* errors handed to `new`, in hundredths: -1, 0, 0.26, 0.36, 0.37, 0.9, 1.5
ErrorsPct == {-100, 0, 26, 36, 37, 90, 150}

Builds == {"debug", "release"}

---------------------------------------------------------------------------
(* 64-bit words as sets of bit positions *)

WordBits == 64

I32Bits == 32

Max(a, b) == IF a >= b THEN a ELSE b

\* x >> n on a u64
Shr(x, n) == { i - n : i \in { k \in x : k >= n } }

\* x & y
BitAnd(x, y) == x \cap y

\* the u64 holding 2^n - 1, i.e. (1 << n) - 1
LowMask(n) == 0 .. (n - 1)

RECURSIVE ToNat(_)
\* the number a word of few bits stands for (`as usize`)
ToNat(x) ==
    IF x = {} THEN 0
    ELSE LET i == CHOOSE k \in x : TRUE
         IN  2^i + ToNat(x \ {i})

\* u64::leading_zeros
leading_zeros(w) ==
    IF w = {} THEN WordBits
    ELSE WordBits - 1 - (CHOOSE i \in w : \A k \in w : k <= i)

---------------------------------------------------------------------------
(* The digest: SipHasher::new() has the fixed key (0, 0), so the digest is *)
(* a function of the element alone.  The table stands for that function:  *)
(* it covers a zero digest, a digest with the top bit set, all ones, and   *)
(* digests whose remainder has 30 to 40 significant bits.                  *)

DigestTable ==
    << {},
       {63},
       {0, 33},
       {0, 1, 40},
       0 .. 63,
       {3, 32},
       {1, 63} >>

SipHash(e) == DigestTable[(e % Len(DigestTable)) + 1]

---------------------------------------------------------------------------
(* Construction *)

\* usize::MAX, as far as the code looks at it: the only uses of p that
\* reach it are shifts, which compare p with the width (32 or 64) and, in
\* the release build, take p modulo the width; 127 agrees with 2^64 - 1 on
\* all of these.
UsizeMax == 127

NoCounter == [alpha |-> <<0, 1>>, p |-> 0, msize |-> 0, m |-> <<>>]

Live(c) == c.msize > 0

RECURSIVE Log2Up(_, _, _)
\* least k >= 0 with num <= den * 2^k
Log2Up(num, den, k) ==
    IF num <= den * 2^k THEN k ELSE Log2Up(num, den, k + 1)

RECURSIVE Log2Down(_, _, _)
\* greatest k >= 0 with num * 2^k <= den (for num <= den)
Log2Down(num, den, k) ==
    IF num * 2^(k + 1) <= den THEN Log2Down(num, den, k + 1) ELSE k

\* (num/den).log2().ceil(), num and den positive
CeilLog2(num, den) ==
    IF num > den THEN Log2Up(num, den, 0) ELSE 0 - Log2Down(num, den, 0)

\* f64 `as usize`: negative values saturate to 0
AsUsize(v) == IF v < 0 THEN 0 ELSE v

\* precision without the powi(2)
precision_no_square(n) ==
    IF n = 0 THEN UsizeMax
    ELSE IF n < 0 THEN 0
    ELSE AsUsize(CeilLog2(104, n))

\* let p = (1.04 / error).powi(2).log2().ceil() as usize, error = n/100.
\* 1.04 / 0.0 is +inf, whose log2 and ceil are +inf, and the cast saturates.
precision(n) ==
    IF n = 0 THEN UsizeMax
    ELSE AsUsize(CeilLog2(104 * 104, n * n))

\* `1 << n` in an integer of `width` bits panics in the debug build when
\* n >= width ("attempt to shift left with overflow")
ShlPanics(width, n, bld) == bld = "debug" /\ n >= width

\* the shift amount `1 << n` uses otherwise (the release build masks it)
ShlAmount(width, n) == n % width

\* alpha(p), as the fraction <<num, den>>; `1 << p` is an i32 here, and the
\* fraction is written out for shift amounts below 31 (a positive 2^p)
alpha(p) ==
    CASE p = 4 -> <<674, 1000>>
      [] p = 5 -> <<697, 1000>>
      [] p = 6 -> <<709, 1000>>
      [] OTHER -> LET v == 2^ShlAmount(I32Bits, p)
                  IN  <<7213 * v, 10 * (1000 * v + 1078)>>

\* vec![0u64; 1 << s] panics ("capacity overflow") when 8 * 2^s bytes
\* exceed isize::MAX
VecPanics(s) == s + 3 >= WordBits - 1

\* LogLogBeta::new(error), error = n/100: the fields in the order the code
\* evaluates them (alpha, msize, m)
new(n, bld) ==
    LET p == precision(n)
        s == ShlAmount(WordBits, p)
    IN  IF \/ (p \notin {4, 5, 6} /\ ShlPanics(I32Bits, p, bld))
           \/ ShlPanics(WordBits, p, bld)
           \/ VecPanics(s)
        THEN [outcome |-> "panic", ret |-> NoCounter]
        ELSE [outcome |-> "ok",
              ret |-> [alpha |-> alpha(p),
                       p     |-> p,
                       msize |-> 2^s,
                       m     |-> [i \in 0 .. (2^s - 1) |-> 0]]]

---------------------------------------------------------------------------
(* Insertion *)

\* rho without the + 1
rho_no_plus_one(w, max_width) == max_width - (WordBits - leading_zeros(w))

\* rho over the whole 64-bit word instead of the window of max_width bits
rho_whole_word(w, max_width) == leading_zeros(w) + 1

\* rho(w, max_width): the signed value the code tests against 0
rho(w, max_width) == max_width - (WordBits - leading_zeros(w)) + 1

\* insert storing rho without taking the maximum
insert_assign(c, x) ==
    LET w   == Shr(x, c.p)
        j   == BitAnd(x, LowMask(c.p))
        idx == ToNat(j)
        r   == rho(w, WordBits - c.p)
    IN  IF r <= 0
        THEN [outcome |-> "panic", ret |-> c]
        ELSE [outcome |-> "ok", ret |-> [c EXCEPT !.m[idx] = r]]

\* LogLogBeta::insert on counter c with digest x
insert(c, x) ==
    LET w   == Shr(x, c.p)
        j   == BitAnd(x, LowMask(c.p))
        idx == ToNat(j)
        r   == rho(w, WordBits - c.p)
    IN  IF r <= 0
        THEN [outcome |-> "panic", ret |-> c]
        ELSE [outcome |-> "ok",
              ret |-> [c EXCEPT !.m[idx] = Max(c.m[idx], r)]]

---------------------------------------------------------------------------
(* Estimation *)

\* Exact binary fractions: limb i of a number counts units of
\* 2^(16 i - 65), so that 2^(-65) up to a sum of 2^6 ones fits.
FracBits == WordBits + 1

LimbBits == 16

TopLimb == FracBits \div LimbBits

Limbs == 0 .. TopLimb

\* sign * 2^(-k), 0 <= k <= 65
Fix(sign, k) ==
    [i \in Limbs |->
        IF i = (FracBits - k) \div LimbBits
        THEN sign * 2^((FracBits - k) % LimbBits) ELSE 0]

FixZero == [i \in Limbs |-> 0]

FixAdd(x, y) == [i \in Limbs |-> x[i] + y[i]]

RECURSIVE Carried(_, _)
\* limb i with the carry of the limbs below it added
Carried(x, i) ==
    IF i = 0 THEN x[0] ELSE x[i] + (Carried(x, i - 1) \div 2^LimbBits)

\* the unique representative whose limbs below the top are in 0 .. 2^16 - 1
FixNorm(x) ==
    [i \in Limbs |->
        IF i = TopLimb THEN Carried(x, i) ELSE Carried(x, i) % 2^LimbBits]

\* 1.0 / (1 << x) as f64, `1 << x` an i32: a shift by 31 gives i32::MIN
InvPow(x) ==
    LET s == ShlAmount(I32Bits, x)
    IN  Fix(IF s = I32Bits - 1 THEN -1 ELSE 1, s)

RECURSIVE FoldInv(_, _, _)
\* the fold of inverse_sum over registers i .. n-1, from accumulator acc
FoldInv(m, i, acc) ==
    IF i \notin DOMAIN m THEN acc
    ELSE FoldInv(m, i + 1, FixAdd(acc, InvPow(m[i])))

\* LogLogBeta::inverse_sum (the sum is kept exact: f64 rounding is left out)
inverse_sum(c, bld) ==
    IF \E i \in DOMAIN c.m : ShlPanics(I32Bits, c.m[i], bld)
    THEN [outcome |-> "panic", ret |-> FixZero]
    ELSE [outcome |-> "ok", ret |-> FixNorm(FoldInv(c.m, 0, FixZero))]

\* LogLogBeta::estimate: the value is alpha * m_s * (m_s - z) / (beta(z) + inv),
\* kept as its exact ingredients (beta is a polynomial in log2(z + 1))
estimate(c, bld) ==
    LET z   == Cardinality({i \in DOMAIN c.m : c.m[i] = 0})
        inv == inverse_sum(c, bld)
    IN  [outcome |-> inv.outcome,
         ret |-> [alpha |-> c.alpha, m_s |-> c.msize, z |-> z, inv |-> inv.ret]]

---------------------------------------------------------------------------
(* Merge *)

\* LogLogBeta::merge(&self, b): returns b
merge(self, b) == b

---------------------------------------------------------------------------
(* The calls a program makes on its counters *)

Idle == [op |-> "none", self |-> "a", other |-> "a", arg |-> 0,
         dup |-> FALSE, outcome |-> "ok", pre |-> NoCounter,
         preOther |-> NoCounter, ret |-> NoCounter]

Init ==
    /\ build \in Builds
    /\ status = "running"
    /\ ctrs = [s \in Slots |-> NoCounter]
    /\ seen = [s \in Slots |-> {}]
    /\ last = Idle

\* s = LogLogBeta::new(n / 100)
New(s, n) ==
    /\ status = "running"
    /\ LET r == new(n, build)
       IN  /\ status' = IF r.outcome = "panic" THEN "panicked" ELSE "running"
           /\ ctrs' = IF r.outcome = "ok" THEN [ctrs EXCEPT ![s] = r.ret] ELSE ctrs
           /\ seen' = IF r.outcome = "ok" THEN [seen EXCEPT ![s] = {}] ELSE seen
           /\ last' = [Idle EXCEPT !.op = "new", !.self = s, !.arg = n,
                                   !.outcome = r.outcome, !.pre = ctrs[s],
                                   !.ret = r.ret]
    /\ UNCHANGED build

\* s.insert(e)
Insert(s, e) ==
    /\ status = "running"
    /\ Live(ctrs[s])
    /\ LET r == insert(ctrs[s], SipHash(e))
       IN  /\ status' = IF r.outcome = "panic" THEN "panicked" ELSE "running"
           /\ ctrs' = [ctrs EXCEPT ![s] = r.ret]
           /\ seen' = IF r.outcome = "ok"
                       THEN [seen EXCEPT ![s] = @ \cup {e}] ELSE seen
           /\ last' = [Idle EXCEPT !.op = "insert", !.self = s, !.arg = e,
                                   !.dup = (e \in seen[s]),
                                   !.outcome = r.outcome, !.pre = ctrs[s],
                                   !.ret = r.ret]
    /\ UNCHANGED build

\* s.estimate()
Estimate(s) ==
    /\ status = "running"
    /\ Live(ctrs[s])
    /\ LET r == estimate(ctrs[s], build)
       IN  /\ status' = IF r.outcome = "panic" THEN "panicked" ELSE "running"
           /\ last' = [Idle EXCEPT !.op = "estimate", !.self = s,
                                   !.outcome = r.outcome, !.pre = ctrs[s],
                                   !.ret = r.ret]
    /\ UNCHANGED <<build, ctrs, seen>>

\* b = a.merge(b): b is moved into the call and the result bound to its name
Merge(a, b) ==
    /\ status = "running"
    /\ a # b
    /\ Live(ctrs[a])
    /\ Live(ctrs[b])
    /\ LET r == merge(ctrs[a], ctrs[b])
       IN  /\ ctrs' = [ctrs EXCEPT ![b] = r]
           /\ last' = [Idle EXCEPT !.op = "merge", !.self = a, !.other = b,
                                   !.pre = ctrs[a], !.preOther = ctrs[b],
                                   !.ret = r]
    /\ UNCHANGED <<build, status, seen>>

Next ==
    \/ \E s \in Slots, n \in ErrorsPct : New(s, n)
    \/ \E s \in Slots, e \in Elems : Insert(s, e)
    \/ \E s \in Slots : Estimate(s)
    \/ \E a \in Slots, b \in Slots : Merge(a, b)

Spec == Init /\ [][Next]_vars

---------------------------------------------------------------------------
(* Reference definitions used to state the properties *)

\* x mod 2^p
ModPow2(x, p) == ToNat({i \in x : i < p})

\* 1 + the number of leading zero bits of x >> p in a window of 64 - p bits
LeadingZeroRun(x, p) ==
    1 + Cardinality({i \in p .. (WordBits - 1) :
                        \A k \in i .. (WordBits - 1) : k \notin x})

RECURSIVE SumInvPow(_, _)
\* the sum over registers i, i+1, ... of 2^(-m[i])
SumInvPow(m, i) ==
    IF i \notin DOMAIN m THEN FixZero
    ELSE FixAdd(Fix(1, m[i]), SumInvPow(m, i + 1))

\* 64-bit words that cover every position of the highest set bit: zero,
\* each single bit, and each run of low ones
ProbeWords ==
    {{}} \cup {{h} : h \in 0 .. (WordBits - 1)}
         \cup {0 .. h : h \in 1 .. (WordBits - 1)}

\* the binding s holds the only counter of the program
OnlyCounter(s) == \A t \in Slots \ {s} : ~Live(ctrs[t])

LiveCounters == {ctrs[s] : s \in {t \in Slots : Live(ctrs[t])}}

RegisterInvariant(c) ==
    /\ DOMAIN c.m = 0 .. (2^c.p - 1)
    /\ c.msize = 2^c.p
    /\ \A i \in DOMAIN c.m : c.m[i] \in 0 .. (WordBits - c.p + 1)

ValidError(n) == 0 < n /\ n < 100

---------------------------------------------------------------------------
(* Properties *)

\* C1: merge(A, B) of two counters of equal precision has register i equal
\* to max(A.registers[i], B.registers[i]) for every i, and the precision
\* and alpha of its inputs.
C1_MergeIsElementwiseMax ==
    (last.op = "merge" /\ last.pre.p = last.preOther.p) =>
        /\ last.outcome = "ok"
        /\ last.ret.p = last.pre.p
        /\ last.ret.alpha = last.pre.alpha
        /\ DOMAIN last.ret.m = DOMAIN last.pre.m
        /\ \A i \in DOMAIN last.pre.m :
              last.ret.m[i] = Max(last.pre.m[i], last.preOther.m[i])

\* C2: merge(A, B) of two counters of different precision fails with a
\* MergeError, produces no counter, and leaves A and B as they were.
C2_MergeMismatchFails ==
    (last.op = "merge" /\ last.pre.p # last.preOther.p) =>
        /\ last.outcome = "MergeError"
        /\ last.ret = NoCounter
        /\ ctrs[last.self] = last.pre
        /\ ctrs[last.other] = last.preOther

\* C3: create(error) fails with a ConfigurationError and returns no counter
\* for every error <= 0 and every error >= 1.
C3_InvalidErrorRejected ==
    (last.op = "new" /\ ~ValidError(last.arg)) =>
        /\ last.outcome = "ConfigurationError"
        /\ last.ret = NoCounter
        /\ ctrs[last.self] = last.pre

C5_RegistersNeverDecrease ==
    /\ last.op = "insert" =>
          \A i \in DOMAIN last.pre.m : last.ret.m[i] >= last.pre.m[i]
    /\ (last.op = "merge" /\ last.pre.p = last.preOther.p) =>
          \A i \in DOMAIN last.pre.m :
              /\ last.ret.m[i] >= last.pre.m[i]
              /\ last.ret.m[i] >= last.preOther.m[i]

\* C6: merge is order-independent: merge(A, B) and merge(B, A) have the same
\* registers, and merge(merge(A, B), C) the same as merge(A, merge(B, C)).
C6_MergeOrderIndependent ==
    \A A \in LiveCounters, B \in LiveCounters, C \in LiveCounters :
        (A.p = B.p /\ B.p = C.p) =>
            /\ merge(A, B).m = merge(B, A).m
            /\ merge(merge(A, B), C).m = merge(A, merge(B, C)).m

\* C7: inserting an element that the counter has already been given leaves
\* the register array as it was, whatever was inserted in between.
C7_DuplicateInsertIsNoOp ==
    (last.op = "insert" /\ last.dup) =>
        /\ last.ret = last.pre
        /\ ctrs[last.self] = last.pre

\* C7 witness: an element is inserted again into a counter that has been
\* given another element as well and holds a register above 1.
C7_Witness ==
    /\ last.op = "insert"
    /\ last.dup
    /\ Cardinality(seen[last.self]) >= 2
    /\ \E i \in DOMAIN last.pre.m : last.pre.m[i] > 1

C10_InverseSumExact ==
    (last.op = "estimate" /\ RegisterInvariant(last.pre)) =>
        /\ last.outcome = "ok"
        /\ last.ret.inv = FixNorm(SumInvPow(last.pre.m, 0))

====
